---- MODULE Spec2Model ----
(***************************************************************************)
(* A model of multiregex.RegexMatcher (multiregex/__init__.py): the        *)
(* construction of a matcher (normalisation of the patterns argument,      *)
(* generation and validation of prematchers, automaton build), the         *)
(* queries (run/search/match/fullmatch, get_pattern_candidates) and the    *)
(* false-positive profile.                                                 *)
(*                                                                         *)
(* Characters are modelled by their names: "a", "b", "A", "B" are ASCII    *)
(* letters, " " is the blank, "ae" stands for U+00E4 and "AE" for U+00C4.  *)
(* A Python str is a sequence of characters.  A compiled pattern is        *)
(* identified by a name; Parse gives the AST that sre_parse.parse returns  *)
(* for pattern.pattern and Flags the flags it was compiled with.           *)
(***************************************************************************)
EXTENDS Integers, Sequences, FiniteSets, TLC

\* ---------------------------------------------------------------- bounds
MaxTextLen == 3
MaxPatterns == 2
MaxCount == 3
MaxWorstN == 2
MaxAstLen == 3

\* ------------------------------------------------------------ characters
Chars == {"a", "b", "A", "B", " ", "ae", "AE"}

\* str.lower() on one character.
Lower(c) ==
  CASE c = "A" -> "a"
    [] c = "B" -> "b"
    [] c = "AE" -> "ae"
    [] OTHER -> c

\* str.isupper() on one character.
IsUpper(c) == c \in {"A", "B", "AE"}

\* str.isascii() on one character.
IsAscii(c) == c \notin {"ae", "AE"}

IsWhitespace(c) == c = " "

\* s.lower() for a str s.
StrLower(s) == [i \in 1..Len(s) |-> Lower(s[i])]

\* w is a (contiguous) substring of s ending at index e.
EndsAt(w, s, e) ==
  /\ Len(w) <= e
  /\ e <= Len(s)
  /\ SubSeq(s, e - Len(w) + 1, e) = w

IsSubstring(w, s) == \E e \in 0..Len(s) : EndsAt(w, s, e)

\* The elements of a sequence.
Range(s) == {s[i] : i \in 1..Len(s)}

\* ------------------------------------------------------- sre_parse's AST
\* One node of the AST is a record of one shape: op is the node's opcode,
\* ch the character of a LITERAL, set the characters of an IN, at the
\* place of an AT, lo/hi the bounds of a MAX_REPEAT, add_flags/del_flags
\* the inline flags of a SUBPATTERN, subs the node's sub-ASTs (the
\* alternatives of a BRANCH, the one body of a SUBPATTERN or MAX_REPEAT).
Node(op, ch, set, at, lo, hi, add, del, subs) ==
  [op |-> op, ch |-> ch, set |-> set, at |-> at, lo |-> lo, hi |-> hi,
   add_flags |-> add, del_flags |-> del, subs |-> subs]

Literal(c) == Node("LITERAL", c, {}, "", 0, 0, {}, {}, <<>>)
InSet(set) == Node("IN", "", set, "", 0, 0, {}, {}, <<>>)
At(where) == Node("AT", "", {}, where, 0, 0, {}, {}, <<>>)
MaxRepeat(lo, hi, body) == Node("MAX_REPEAT", "", {}, "", lo, hi, {}, {}, <<body>>)
Subpattern(add, del, body) == Node("SUBPATTERN", "", {}, "", 0, 0, add, del, <<body>>)
Branch(alts) == Node("BRANCH", "", {}, "", 0, 0, {}, {}, alts)

\* The patterns of the model, by name: the pattern's source, with "/x" or
\* "/i" appended when it was compiled with re.VERBOSE or re.IGNORECASE.
PatternNames ==
  {"a", "aa", "b", "(a|a)a", "aa|b", "a|b", "ae", "a b/x", "Ab/i"}

\* sre_parse.parse(pattern.pattern): the flags a pattern was compiled with
\* are not passed, so the source is parsed as under flags 0.
Parse(p) ==
  CASE p = "a" -> <<Literal("a")>>
    [] p = "aa" -> <<Literal("a"), Literal("a")>>
    [] p = "b" -> <<Literal("b")>>
    [] p = "(a|a)a" ->
         <<Subpattern({}, {}, <<Literal("a"), Branch(<< <<>>, <<>> >>)>>),
           Literal("a")>>
    [] p = "aa|b" -> <<Branch(<< <<Literal("a"), Literal("a")>>, <<Literal("b")>> >>)>>
    [] p = "a|b" -> <<InSet({"a", "b"})>>
    [] p = "ae" -> <<Literal("ae")>>
    [] p = "a b/x" -> <<Literal("a"), Literal(" "), Literal("b")>>
    [] p = "Ab/i" -> <<Literal("A"), Literal("b")>>

\* pattern.flags: the flags given to re.compile.
Flags(p) ==
  CASE p = "a b/x" -> {"VERBOSE"}
    [] p = "Ab/i" -> {"IGNORECASE"}
    [] OTHER -> {}

\* ------------------------------------------------- prematcher generation
\* _simplify_sre_ast: r"(...)" becomes r"..." when the one node is a
\* subpattern without inline flags.
_simplify_sre_ast(sre_ast) ==
  IF /\ Len(sre_ast) = 1
     /\ sre_ast[1].op = "SUBPATTERN"
     /\ sre_ast[1].add_flags = {}
     /\ sre_ast[1].del_flags = {}
  THEN sre_ast[1].subs[1]
  ELSE sre_ast

\* The first index >= i of sre_ast that holds no LITERAL (Len + 1 if none).
RECURSIVE StreakEnd(_, _)
StreakEnd(sre_ast, i) ==
  IF i <= Len(sre_ast) /\ sre_ast[i].op = "LITERAL"
  THEN StreakEnd(sre_ast, i + 1)
  ELSE i

\* _sre_find_terminals: the streaks of LITERALs from index i on, in order.
\* Each pass of the outer loop yields the streak at i (empty when the node
\* at i is no LITERAL) and skips the node that ended it.
RECURSIVE _sre_find_terminals(_, _)
_sre_find_terminals(sre_ast, i) ==
  IF i > Len(sre_ast)
  THEN <<>>
  ELSE LET j == StreakEnd(sre_ast, i)
       IN  <<[k \in 1..(j - i) |-> sre_ast[i + k - 1].ch]>>
             \o _sre_find_terminals(sre_ast, j + 1)

\* MaxByLen keeping the last element of maximal length.
RECURSIVE MaxByLenLast(_, _)
MaxByLenLast(terminals, best) ==
  IF terminals = <<>>
  THEN best
  ELSE MaxByLenLast(Tail(terminals),
                    IF Len(Head(terminals)) >= Len(best) THEN Head(terminals) ELSE best)

\* max(terminals, key=len, default=""): the first element of maximal length.
RECURSIVE MaxByLen(_, _)
MaxByLen(terminals, best) ==
  IF terminals = <<>>
  THEN best
  ELSE MaxByLen(Tail(terminals),
                IF Len(Head(terminals)) > Len(best) THEN Head(terminals) ELSE best)

_get_top_level_prematcher(sre_ast) ==
  StrLower(MaxByLen(_sre_find_terminals(sre_ast, 1), <<>>))

\* ChildPrematchers without the _simplify_sre_ast of each child.
ChildPrematchersUnsimplified(node) ==
  {_get_top_level_prematcher(node.subs[k]) : k \in 1..Len(node.subs)}

\* The prematchers of the children of one BRANCH node.
ChildPrematchers(node) ==
  {_get_top_level_prematcher(_simplify_sre_ast(node.subs[k])) : k \in 1..Len(node.subs)}

\* sre_branches with the branch case kept to an AST of one node.
SoleBranch(sre_ast) ==
  IF Len(sre_ast) = 1 THEN {i \in 1..Len(sre_ast) : sre_ast[i].op = "BRANCH"} ELSE {}

\* sre_branches of generate_prematchers: the places of the BRANCH nodes of
\* the top level.
sre_branches(sre_ast) == {i \in 1..Len(sre_ast) : sre_ast[i].op = "BRANCH"}

\* generate_prematchers from the AST sre_parse.parse returned: [ok, value];
\* ok = FALSE stands for the ValueError.  The loop over sre_branches returns
\* at the first BRANCH whose children all have a prematcher.
GenerateFromAst(parsed) ==
  LET sre_ast == _simplify_sre_ast(parsed)
      top == _get_top_level_prematcher(sre_ast)
      good == {i \in sre_branches(sre_ast) :
                 \A t \in ChildPrematchers(sre_ast[i]) : t # <<>>}
  IN  IF top # <<>>
      THEN [ok |-> TRUE, value |-> {top}]
      ELSE IF good # {}
      THEN [ok |-> TRUE,
            value |-> ChildPrematchers(sre_ast[CHOOSE i \in good : \A j \in good : i <= j])]
      ELSE [ok |-> FALSE, value |-> {}]

\* generate_prematchers(pattern).
generate_prematchers(p) == GenerateFromAst(Parse(p))

\* ------------------------------------------------------------ validation
\* validate_prematcher: TRUE when no ValueError is raised.
validate_prematcher(prematcher) ==
  ~ (prematcher = <<>> \/ \E i \in 1..Len(prematcher) : IsUpper(prematcher[i]))

\* ------------------------------------------------- the regex engine (re)
\* The program re.compile builds: under re.VERBOSE the whitespace of the
\* source is no part of it.
RECURSIVE Program(_, _)
Program(sre_ast, verbose) ==
  IF sre_ast = <<>>
  THEN <<>>
  ELSE LET n == Head(sre_ast)
           rest == Program(Tail(sre_ast), verbose)
       IN  IF verbose /\ n.op = "LITERAL" /\ IsWhitespace(n.ch)
           THEN rest
           ELSE <<[n EXCEPT !.subs = [k \in 1..Len(n.subs) |-> Program(n.subs[k], verbose)]]>>
                  \o rest

CharMatches(c, t, ignorecase) ==
  IF ignorecase THEN Lower(c) = Lower(t) ELSE c = t

\* The positions at which a match of prog[k..] that starts at position i of
\* text can end (positions are 0..Len(text)).
RECURSIVE Ends(_, _, _, _, _), RepeatEnds(_, _, _, _, _)
Ends(prog, k, text, i, ic) ==
  IF k > Len(prog)
  THEN {i}
  ELSE LET n == prog[k]
           here ==
             CASE n.op = "LITERAL" ->
                    IF i < Len(text) /\ CharMatches(n.ch, text[i + 1], ic) THEN {i + 1} ELSE {}
               [] n.op = "IN" ->
                    IF i < Len(text) /\ \E c \in n.set : CharMatches(c, text[i + 1], ic)
                    THEN {i + 1} ELSE {}
               [] n.op = "AT" ->
                    IF (n.at = "AT_BEGINNING" /\ i = 0) \/ (n.at = "AT_END" /\ i = Len(text))
                    THEN {i} ELSE {}
               [] n.op = "SUBPATTERN" ->
                    Ends(n.subs[1], 1, text, i,
                         (ic \/ "IGNORECASE" \in n.add_flags) /\ "IGNORECASE" \notin n.del_flags)
               [] n.op = "BRANCH" ->
                    UNION {Ends(n.subs[a], 1, text, i, ic) : a \in 1..Len(n.subs)}
               [] n.op = "MAX_REPEAT" ->
                    RepeatEnds(n, text, {i}, 0, ic)
       IN  UNION {Ends(prog, k + 1, text, j, ic) : j \in here}

\* The ends of n.lo..n.hi repetitions of the body of a MAX_REPEAT node:
\* from is where `done` repetitions can end.
RepeatEnds(n, text, from, done, ic) ==
  LET ok == IF done >= n.lo THEN from ELSE {}
      next == UNION {Ends(n.subs[1], 1, text, j, ic) : j \in from}
  IN  IF done >= n.hi \/ done > n.lo + Len(text) \/ next = {}
      THEN ok
      ELSE ok \cup RepeatEnds(n, text, next, done + 1, ic)

NoMatch == -1

\* pattern.search / pattern.match / pattern.fullmatch on s: the start of the
\* match found (the match object), or NoMatch for None.
MatchFunc(kind, p, s) ==
  LET prog == Program(Parse(p), "VERBOSE" \in Flags(p))
      ic == "IGNORECASE" \in Flags(p)
      starts == {i \in 0..Len(s) : Ends(prog, 1, s, i, ic) # {}}
  IN  CASE kind = "search" ->
             IF starts = {} THEN NoMatch ELSE CHOOSE i \in starts : \A j \in starts : i <= j
        [] kind = "match" ->
             IF 0 \in starts THEN 0 ELSE NoMatch
        [] kind = "fullmatch" ->
             IF Len(s) \in Ends(prog, 1, s, 0, ic) THEN 0 ELSE NoMatch

\* ---------------------------------------------------- constructor inputs
\* The prematchers given with a pattern in a (pattern, prematchers) tuple:
\* None, an iterable of tokens (toks), or a single str (s).
PMNone == [t |-> "None", toks |-> {}, s |-> <<>>]
PMSet(toks) == [t |-> "iterable", toks |-> toks, s |-> <<>>]
PMStr(s) == [t |-> "str", toks |-> {}, s |-> s]

\* One element of list(patterns): a bare pattern or a (pattern, prematchers)
\* tuple.
Bare(p) == [tuple |-> FALSE, pattern |-> p, pm |-> PMNone]
Tuple(p, pm) == [tuple |-> TRUE, pattern |-> p, pm |-> pm]

\* The prematchers a caller gives in the model.
GivenPrematchers ==
  {PMNone, PMSet({}), PMSet({<<"a", "b">>}), PMSet({<<"ae">>}),
   PMSet({<<"A">>}), PMSet({<<>>}), PMStr(<<"a", "b">>)}

\* The (pattern, prematchers) tuples of the model.
Tuples ==
  {Tuple(p, pm) : p \in {"a", "aa"}, pm \in GivenPrematchers}

SeqsUpTo(S, n) == UNION {[1..k -> S] : k \in 0..n}

\* The patterns argument of __init__: a list of bare patterns, a list of
\* tuples, or a single str, whose characters list() makes the elements.
PatternsArgs ==
  {[str |-> FALSE, items |-> l] : l \in SeqsUpTo({Bare(p) : p \in PatternNames}, MaxPatterns)}
    \cup {[str |-> FALSE, items |-> l] : l \in SeqsUpTo(Tuples, MaxPatterns)}
    \cup {[str |-> TRUE, items |-> l] :
            l \in SeqsUpTo({Bare(c) : c \in {"a", "b"}}, MaxPatterns) \ {<<>>}}

\* The arguments of the matchers built with count_prematcher_false_positives.
ProfiledElements ==
  {Bare("(a|a)a"), Bare("aa"), Tuple("a", PMSet({})), Tuple("aa", PMNone)}

ProfiledArgs ==
  {a \in PatternsArgs : ~ a.str /\ \A i \in 1..Len(a.items) : a.items[i] \in ProfiledElements}

\* The nodes of the ASTs generate_prematchers is applied to on its own:
\* literals, a class ("[ab]"), an anchor ("^"), a repeat ("a?"), a group
\* ("(ab)"), a group with an inline flag ("(?i:a)") and the alternations
\* "ab|b", "aa|", "(ab)|bA" and "aa|(bb|ab)".
BranchNodes ==
  {Branch(<< <<Literal("a"), Literal("b")>>, <<Literal("b")>> >>),
   Branch(<< <<Literal("a"), Literal("a")>>, <<>> >>),
   Branch(<< <<Subpattern({}, {}, <<Literal("a"), Literal("b")>>)>>,
             <<Literal("b"), Literal("A")>> >>),
   Branch(<< <<Literal("a"), Literal("a")>>,
             <<Subpattern({}, {},
                 <<Branch(<< <<Literal("b"), Literal("b")>>,
                             <<Literal("a"), Literal("b")>> >>)>>)>> >>)}

AstNodes ==
  {Literal("a"), Literal("b"), Literal("A"), InSet({"a", "b"}), At("AT_BEGINNING"),
   MaxRepeat(0, 1, <<Literal("a")>>),
   Subpattern({}, {}, <<Literal("a"), Literal("b")>>),
   Subpattern({"IGNORECASE"}, {}, <<Literal("a")>>)} \cup BranchNodes

\* What sre_parse.parse returns for the patterns given to
\* generate_prematchers: a sequence of nodes, or one group around it.
ParsedPatterns ==
  LET seqs == SeqsUpTo(AstNodes, MaxAstLen)
  IN  seqs \cup {<<Subpattern({}, {}, s)>> : s \in seqs}

\* The texts of the queries.
TextChars == {"a", "b", "A", "ae"}
Texts == SeqsUpTo(TextChars, MaxTextLen)

\* The texts of the queries made from several threads: those of
\* test_false_positives_counter.
ThreadTexts == {<<"a">>, <<"a", "a">>, <<"b", "a", "a">>}
Kinds == {"search", "match", "fullmatch"}

\* ----------------------------------------------------------- the matcher
VARIABLES
  phase,                             \* "new", "built", or "failed" (__init__ raised)
  raised,                            \* the exception __init__ raised, or ""
  arg,                               \* the arguments __init__ was called with
  patterns,                          \* self.patterns
  prematchers,                       \* self.prematchers
  patterns_without_prematchers,      \* self.patterns_without_prematchers
  automaton,                         \* self.automaton
  count_prematcher_false_positives,  \* self.count_prematcher_false_positives
  prematcher_false_positives,        \* self.prematcher_false_positives
  call,                              \* the last call made on the matcher
  ret,                               \* what that call returned or raised
  scenario,                          \* with profiling: how many calls of
                                     \* test_false_positives_counter the runs so far are
  threads,                           \* the run call each thread is in, if any
  serial                             \* the counters the run calls made so far give
                                     \* when they are made one after another

matcher ==
  <<patterns, prematchers, patterns_without_prematchers, automaton,
    count_prematcher_false_positives, prematcher_false_positives>>

vars == <<phase, raised, arg, matcher, call, ret, scenario, threads, serial>>

EmptyDict == [x \in {} |-> {}]

\* The threads that call run on the one matcher, and a thread in no call.
Threads == {"t1", "t2"}
IdleThread == [pc |-> "idle", re_results |-> <<>>, loaded |-> 0, result |-> <<>>]

NoArg == [str |-> FALSE, items |-> <<>>, profiling |-> FALSE]
NoCall ==
  [op |-> "", kind |-> "", s |-> <<>>, enable_prematchers |-> FALSE,
   worst_none |-> TRUE, worst_n |-> 0, sre_ast |-> <<>>]
NoRet ==
  [raised |-> "", pairs |-> <<>>, candidates |-> <<>>, report |-> <<>>, lines |-> <<>>,
   prematchers |-> {}]

Init ==
  /\ phase = "new"
  /\ raised = ""
  /\ arg = NoArg
  /\ patterns = <<>>
  /\ prematchers = EmptyDict
  /\ patterns_without_prematchers = {}
  /\ automaton = EmptyDict
  /\ count_prematcher_false_positives = FALSE
  /\ prematcher_false_positives = EmptyDict
  /\ call = NoCall
  /\ ret = NoRet
  /\ scenario = 0
  /\ threads = [t \in Threads |-> IdleThread]
  /\ serial = EmptyDict

\* ---------------------------------------------------------- construction
\* _normalize_patterns: [raised, value]; value is the list of
\* (pattern, prematchers) with prematchers None (none = TRUE) or a set.
\* safe_set raises the TypeError for prematchers given as a str.
_normalize_patterns(items) ==
  IF items # <<>> /\ ~ items[1].tuple
  THEN [raised |-> "",
        value |-> [i \in 1..Len(items) |->
                     [pattern |-> items[i].pattern, none |-> TRUE, toks |-> {}]]]
  ELSE IF \E i \in 1..Len(items) : items[i].pm.t = "str"
  THEN [raised |-> "TypeError", value |-> <<>>]
  ELSE [raised |-> "",
        value |-> [i \in 1..Len(items) |->
                     [pattern |-> items[i].pattern,
                      none |-> items[i].pm.t = "None",
                      toks |-> items[i].pm.toks]]]

\* AllValid with the loop left after the first pattern.
AllValidFirstOnly(pats) ==
  \A i \in 1..Len(pats) : i = 1 => \A prematcher \in pats[i].toks : validate_prematcher(prematcher)

\* The validation loop of _generate_missing_prematchers.
AllValid(pats) ==
  \A i \in 1..Len(pats) : \A prematcher \in pats[i].toks : validate_prematcher(prematcher)

\* _generate_missing_prematchers: [raised, value]; value is the list of
\* (pattern, prematchers).
_generate_missing_prematchers(normalized) ==
  LET gen(i) == generate_prematchers(normalized[i].pattern)
      pats == [i \in 1..Len(normalized) |->
                 [pattern |-> normalized[i].pattern,
                  toks |-> IF normalized[i].none THEN gen(i).value ELSE normalized[i].toks]]
  IN  IF \E i \in 1..Len(normalized) : normalized[i].none /\ ~ gen(i).ok
      THEN [raised |-> "ValueError", value |-> <<>>]
      ELSE IF ~ AllValid(pats)
      THEN [raised |-> "ValueError", value |-> <<>>]
      ELSE [raised |-> "", value |-> pats]

\* _make_automaton: pattern_candidates_by_prematchers, the dictionary the
\* automaton is made from.
_make_automaton(pats) ==
  LET words == UNION {pats[i].toks : i \in 1..Len(pats)}
  IN  [w \in words |-> {<<i, pats[i].pattern>> : i \in {j \in 1..Len(pats) : w \in pats[j].toks}}]

\* Whether _ahocorasick_make_automaton may succeed and whether it may raise
\* the AhocorasickError: add_word returns False for an empty word, and what
\* make_automaton returns for a trie without words is left open.
AutomatonMaySucceed(words) == \A w \in DOMAIN words : w # <<>>
AutomatonMayFail(words) == DOMAIN words = {} \/ \E w \in DOMAIN words : w = <<>>

\* self.prematchers = dict(patterns): a later element of the same pattern
\* replaces an earlier one.
PrematchersDict(pats) ==
  [p \in {pats[i].pattern : i \in 1..Len(pats)} |->
     pats[CHOOSE i \in 1..Len(pats) :
            /\ pats[i].pattern = p
            /\ \A j \in 1..Len(pats) : pats[j].pattern = p => j <= i].toks]

Fail(exc) ==
  /\ phase' = "failed"
  /\ raised' = exc
  /\ UNCHANGED <<matcher, serial>>

\* RegexMatcher(patterns, count_prematcher_false_positives): the whole of
\* __init__.  When it raises, the caller holds no matcher.
Construct(a, profiling) ==
  /\ phase = "new"
  /\ arg' = [str |-> a.str, items |-> a.items, profiling |-> profiling]
  /\ UNCHANGED <<call, ret, scenario, threads>>
  /\ LET normalized == _normalize_patterns(a.items)
         generated == _generate_missing_prematchers(normalized.value)
         words == _make_automaton(generated.value)
     IN  IF normalized.raised # ""
         THEN Fail(normalized.raised)
         ELSE IF generated.raised # ""
         THEN Fail(generated.raised)
         ELSE \/ /\ AutomatonMayFail(words)
                 /\ Fail("AhocorasickError")
              \/ /\ AutomatonMaySucceed(words)
                 /\ phase' = "built"
                 /\ raised' = ""
                 /\ patterns' = [i \in 1..Len(generated.value) |-> generated.value[i].pattern]
                 /\ prematchers' = PrematchersDict(generated.value)
                 /\ patterns_without_prematchers' =
                      {<<i, generated.value[i].pattern>> :
                         i \in {j \in 1..Len(generated.value) : generated.value[j].toks = {}}}
                 /\ automaton' = words
                 /\ count_prematcher_false_positives' = profiling
                 /\ prematcher_false_positives' =
                      IF profiling
                      THEN [p \in Range(patterns') |-> [positives |-> 0, false_positives |-> 0]]
                      ELSE EmptyDict
                 /\ serial' = prematcher_false_positives'

\* ---------------------------------------------------------------- queries
\* self.automaton.iter(s): an (end_index, word, value) item for every
\* occurrence of every word of the automaton in s.
AutomatonIter(s) ==
  LET hits == {x \in (1..Len(s)) \X DOMAIN automaton : EndsAt(x[2], s, x[1])}
  IN  {<<x[1], x[2], automaton[x[2]]>> : x \in hits}

\* SortedByIdx with the key negated: by decreasing pattern_idx.
RECURSIVE SortedByIdxDescending(_)
SortedByIdxDescending(S) ==
  IF S = {}
  THEN <<>>
  ELSE LET first == CHOOSE x \in S : \A y \in S : x[1] >= y[1]
       IN  <<first>> \o SortedByIdxDescending(S \ {first})

\* sorted(candidates, key=lambda x: x[0]): the (pattern_idx, pattern) pairs
\* by increasing pattern_idx.
RECURSIVE SortedByIdx(_)
SortedByIdx(S) ==
  IF S = {}
  THEN <<>>
  ELSE LET first == CHOOSE x \in S : \A y \in S : x[1] <= y[1]
       IN  <<first>> \o SortedByIdx(S \ {first})

\* to_lowercase_ascii of the other revision of the module:
\* s.lower().encode("ascii", errors="ignore").decode().
RECURSIVE DropNonAscii(_)
DropNonAscii(s) ==
  IF s = <<>>
  THEN <<>>
  ELSE (IF IsAscii(Head(s)) THEN <<Head(s)>> ELSE <<>>) \o DropNonAscii(Tail(s))

to_lowercase_ascii(s) == DropNonAscii(StrLower(s))

\* The text the automaton scans.
ScannedText(s) == StrLower(s)

\* get_pattern_candidates(s), each pattern with its pattern_idx.
get_pattern_candidates(s) ==
  LET matches == AutomatonIter(ScannedText(s))
      unordered_candidates ==
        patterns_without_prematchers \cup UNION {m[3] : m \in matches}
  IN  SortedByIdx(unordered_candidates)

\* The candidates run tries.
RunCandidates(s, enable_prematchers) ==
  IF enable_prematchers
  THEN get_pattern_candidates(s)
  ELSE [i \in 1..Len(patterns) |-> <<i, patterns[i]>>]

\* match_func(pattern, s) for the patterns and texts of the model, evaluated
\* once.
MatchTable ==
  [kind \in Kinds |-> [p \in PatternNames |-> [s \in Texts |-> MatchFunc(kind, p, s)]]]

\* re_results of run: (pattern_idx, pattern, match) for every candidate.
ReResults(kind, s, enable_prematchers) ==
  LET candidates == RunCandidates(s, enable_prematchers)
  IN  [i \in 1..Len(candidates) |->
         <<candidates[i][1], candidates[i][2], MatchTable[kind][candidates[i][2]][s]>>]

RECURSIVE SelectSeqBy(_, _)
SelectSeqBy(seq, keep) ==
  IF seq = <<>>
  THEN <<>>
  ELSE (IF Head(seq) \in keep THEN <<Head(seq)>> ELSE <<>>) \o SelectSeqBy(Tail(seq), keep)

\* What run returns: the re_results with a match.
RunResult(kind, s, enable_prematchers) ==
  LET re_results == ReResults(kind, s, enable_prematchers)
  IN  SelectSeqBy(re_results, {r \in Range(re_results) : r[3] # NoMatch})

\* Counted with the attempt counted only when the regex matched.
RECURSIVE CountedPositivesOnMatch(_, _)
CountedPositivesOnMatch(fp, re_results) ==
  IF re_results = <<>>
  THEN fp
  ELSE LET pattern == Head(re_results)[2]
           match == Head(re_results)[3]
           two == IF match = NoMatch
                  THEN [fp EXCEPT ![pattern].false_positives = @ + 1]
                  ELSE [fp EXCEPT ![pattern].positives = @ + 1]
       IN  CountedPositivesOnMatch(two, Tail(re_results))

\* Counted with the test of the match inverted.
RECURSIVE CountedMatches(_, _)
CountedMatches(fp, re_results) ==
  IF re_results = <<>>
  THEN fp
  ELSE LET pattern == Head(re_results)[2]
           match == Head(re_results)[3]
           one == [fp EXCEPT ![pattern].positives = @ + 1]
           two == IF match # NoMatch
                  THEN [one EXCEPT ![pattern].false_positives = @ + 1]
                  ELSE one
       IN  CountedMatches(two, Tail(re_results))

\* The counting loop of run over re_results, from the counters fp.
RECURSIVE Counted(_, _)
Counted(fp, re_results) ==
  IF re_results = <<>>
  THEN fp
  ELSE LET pattern == Head(re_results)[2]
           match == Head(re_results)[3]
           one == [fp EXCEPT ![pattern].positives = @ + 1]
           two == IF match = NoMatch
                  THEN [one EXCEPT ![pattern].false_positives = @ + 1]
                  ELSE one
       IN  Counted(two, Tail(re_results))

\* InsertByCount with the key not negated: increasing false_positives.
RECURSIVE InsertByCountAscending(_, _)
InsertByCountAscending(sorted, x) ==
  IF sorted = <<>>
  THEN <<x>>
  ELSE IF Head(sorted).false_positives <= x.false_positives
  THEN <<Head(sorted)>> \o InsertByCountAscending(Tail(sorted), x)
  ELSE <<x>> \o sorted

\* Stable insertion of x into a list sorted by decreasing false_positives.
RECURSIVE InsertByCount(_, _)
InsertByCount(sorted, x) ==
  IF sorted = <<>>
  THEN <<x>>
  ELSE IF Head(sorted).false_positives >= x.false_positives
  THEN <<Head(sorted)>> \o InsertByCount(Tail(sorted), x)
  ELSE <<x>> \o sorted

RECURSIVE SortedByCount(_, _)
SortedByCount(items, sorted) ==
  IF items = <<>>
  THEN sorted
  ELSE SortedByCount(Tail(items), InsertByCount(sorted, Head(items)))

\* The keys of self.prematcher_false_positives in insertion order: the
\* patterns in the order of their first occurrence in self.patterns.
RECURSIVE KeysInOrder(_, _)
KeysInOrder(pats, seen) ==
  IF pats = <<>>
  THEN <<>>
  ELSE IF Head(pats) \in seen
  THEN KeysInOrder(Tail(pats), seen)
  ELSE <<Head(pats)>> \o KeysInOrder(Tail(pats), seen \cup {Head(pats)})

\* get_prematcher_false_positives when profiling is enabled: the
\* (pattern, fp_counter) items with false positives, sorted.
get_prematcher_false_positives ==
  LET keys == KeysInOrder(patterns, {})
      items == [i \in 1..Len(keys) |->
                  [pattern |-> keys[i],
                   positives |-> prematcher_false_positives[keys[i]].positives,
                   false_positives |-> prematcher_false_positives[keys[i]].false_positives]]
      listed == SelectSeqBy(items, {x \in Range(items) : x.false_positives # 0})
  IN  SortedByCount(listed, <<>>)

\* seq[:worst_n].
SliceTo(seq, worst_none, worst_n) ==
  IF worst_none
  THEN seq
  ELSE LET stop == IF worst_n < 0 THEN Len(seq) + worst_n ELSE worst_n
           n == IF stop < 0 THEN 0 ELSE IF stop > Len(seq) THEN Len(seq) ELSE stop
       IN  SubSeq(seq, 1, n)

\* "{:.2f}".format(false_positives / positives) in hundredths: rounded to
\* the nearest hundredth, a tie to the even one (the quotients that tie
\* within the model's bounds are exact binary fractions).
Rate2f(false_positives, positives) ==
  LET q == (100 * false_positives) \div positives
      r == (100 * false_positives) % positives
  IN  IF 2 * r < positives THEN q
      ELSE IF 2 * r > positives THEN q + 1
      ELSE IF q % 2 = 0 THEN q ELSE q + 1

\* The lines format_prematcher_false_positives adds below its header.
FormatLines(fp_data) ==
  IF fp_data # <<>>
  THEN [i \in 1..Len(fp_data) |->
          [count |-> fp_data[i].false_positives,
           rate |-> Rate2f(fp_data[i].false_positives, fp_data[i].positives),
           pattern |-> fp_data[i].pattern,
           prematchers |-> prematchers[fp_data[i].pattern]]]
  ELSE <<[count |-> 0, rate |-> 0, pattern |-> "(No data)", prematchers |-> {}]>>

\* The calls of test_false_positives_counter, in order.
ScenarioCalls == << <<"a">>, <<"a", "a">>, <<"b", "a", "a">> >>
OffScenario == -1

Idle == phase = "built" /\ call = NoCall

\* run(match_func, s, enable_prematchers), as search, match and fullmatch
\* call it: the whole call.
Run(kind, s, enable_prematchers) ==
  /\ Idle
  /\ LET re_results == ReResults(kind, s, enable_prematchers)
         counted == Counted(prematcher_false_positives, re_results)
     IN  /\ count_prematcher_false_positives =>
               \A p \in DOMAIN counted : counted[p].positives <= MaxCount
         /\ prematcher_false_positives' =
              IF count_prematcher_false_positives THEN counted ELSE prematcher_false_positives
         /\ ret' = [NoRet EXCEPT !.pairs = RunResult(kind, s, enable_prematchers)]
  /\ call' = [NoCall EXCEPT !.op = "run", !.kind = kind, !.s = s,
                            !.enable_prematchers = enable_prematchers]
  /\ scenario' =
       IF ~ count_prematcher_false_positives
       THEN scenario
       ELSE IF /\ scenario \in 0..(Len(ScenarioCalls) - 1)
               /\ kind = "match" /\ enable_prematchers /\ s = ScenarioCalls[scenario + 1]
       THEN scenario + 1
       ELSE OffScenario
  /\ serial' = prematcher_false_positives'
  /\ UNCHANGED <<phase, raised, arg, patterns, prematchers, patterns_without_prematchers,
                 automaton, count_prematcher_false_positives, threads>>

\* GetPatternCandidates with patterns_without_prematchers.update(...) in the
\* place of .union(...): the candidates found are added to the set itself.
GetPatternCandidatesUpdating(s) ==
  /\ Idle
  /\ call' = [NoCall EXCEPT !.op = "get_pattern_candidates", !.s = s]
  /\ ret' = [NoRet EXCEPT !.candidates = get_pattern_candidates(s)]
  /\ patterns_without_prematchers' = Range(get_pattern_candidates(s))
  /\ UNCHANGED <<phase, raised, arg, patterns, prematchers, automaton,
                 count_prematcher_false_positives, prematcher_false_positives, scenario, threads, serial>>

\* get_pattern_candidates(s), called by the user.
GetPatternCandidates(s) ==
  /\ Idle
  /\ call' = [NoCall EXCEPT !.op = "get_pattern_candidates", !.s = s]
  /\ ret' = [NoRet EXCEPT !.candidates = get_pattern_candidates(s)]
  /\ UNCHANGED <<phase, raised, arg, matcher, scenario, threads, serial>>

\* GetPrematcherFalsePositives without the test of the profiling flag.
GetPrematcherFalsePositivesUnchecked ==
  /\ Idle
  /\ call' = [NoCall EXCEPT !.op = "get_prematcher_false_positives"]
  /\ ret' = [NoRet EXCEPT !.report = <<>>]
  /\ UNCHANGED <<phase, raised, arg, matcher, scenario, threads, serial>>

\* get_prematcher_false_positives(), called by the user.
GetPrematcherFalsePositives ==
  /\ Idle
  /\ call' = [NoCall EXCEPT !.op = "get_prematcher_false_positives"]
  /\ ret' = IF ~ count_prematcher_false_positives
            THEN [NoRet EXCEPT !.raised = "RuntimeError"]
            ELSE [NoRet EXCEPT !.report = get_prematcher_false_positives]
  /\ UNCHANGED <<phase, raised, arg, matcher, scenario, threads, serial>>

\* FormatPrematcherFalsePositives that starts the counters anew once they
\* are reported.
FormatPrematcherFalsePositivesResetting(worst_none, worst_n) ==
  /\ Idle
  /\ call' = [NoCall EXCEPT !.op = "format_prematcher_false_positives",
                            !.worst_none = worst_none, !.worst_n = worst_n]
  /\ ret' = IF ~ count_prematcher_false_positives
            THEN [NoRet EXCEPT !.raised = "RuntimeError"]
            ELSE LET fp_data == SliceTo(get_prematcher_false_positives, worst_none, worst_n)
                 IN  [NoRet EXCEPT !.report = fp_data, !.lines = FormatLines(fp_data)]
  /\ prematcher_false_positives' =
       [p \in DOMAIN prematcher_false_positives |-> [positives |-> 0, false_positives |-> 0]]
  /\ UNCHANGED <<phase, raised, arg, patterns, prematchers, patterns_without_prematchers,
                 automaton, count_prematcher_false_positives, scenario, threads, serial>>

\* format_prematcher_false_positives(worst_n).
FormatPrematcherFalsePositives(worst_none, worst_n) ==
  /\ Idle
  /\ call' = [NoCall EXCEPT !.op = "format_prematcher_false_positives",
                            !.worst_none = worst_none, !.worst_n = worst_n]
  /\ ret' = IF ~ count_prematcher_false_positives
            THEN [NoRet EXCEPT !.raised = "RuntimeError"]
            ELSE LET fp_data == SliceTo(get_prematcher_false_positives, worst_none, worst_n)
                 IN  [NoRet EXCEPT !.report = fp_data, !.lines = FormatLines(fp_data)]
  /\ UNCHANGED <<phase, raised, arg, matcher, scenario, threads, serial>>

\* generate_prematchers(pattern), called on its own for a pattern that
\* parses to `parsed`.
GeneratePrematchers(parsed) ==
  /\ phase = "new"
  /\ call = NoCall
  /\ call' = [NoCall EXCEPT !.op = "generate_prematchers", !.sre_ast = parsed]
  /\ ret' = LET generated == GenerateFromAst(parsed)
            IN  IF generated.ok
                THEN [NoRet EXCEPT !.prematchers = generated.value]
                ELSE [NoRet EXCEPT !.raised = "ValueError"]
  /\ UNCHANGED <<phase, raised, arg, matcher, scenario, threads, serial>>

\* The caller is done with what the call returned.
Discard ==
  /\ phase = "built"
  /\ call # NoCall
  /\ call' = NoCall
  /\ ret' = NoRet
  /\ UNCHANGED <<phase, raised, arg, matcher, scenario, threads, serial>>

\* ------------------------------------------------- run on several threads
\* run holds no lock.  A thread in run is at one of the reads and writes of
\* the counters: `counter[...] += 1` reads the counter (load_*) and writes
\* the value read plus one (store_*), and another thread may run between
\* the two.  re_results holds the results still to be counted.
ThreadFrame == UNCHANGED <<phase, raised, arg, patterns, prematchers,
                           patterns_without_prematchers, automaton,
                           count_prematcher_false_positives, call, ret, scenario>>

\* Where a thread goes on once the results re_results are left to count.
NextResult(t, re_results, result) ==
  [pc |-> IF re_results = <<>> THEN "return" ELSE "load_positives",
   re_results |-> re_results, loaded |-> 0, result |-> result]

\* The thread t calls run(match_func, s, enable_prematchers): the
\* candidates and the matches are computed from attributes no call writes.
ThreadRun(t, kind, s, enable_prematchers) ==
  /\ phase = "built"
  /\ threads[t].pc = "idle"
  /\ LET re_results == ReResults(kind, s, enable_prematchers)
         result == RunResult(kind, s, enable_prematchers)
         counted == Counted(serial, re_results)
     IN  /\ count_prematcher_false_positives =>
               \A p \in DOMAIN counted : counted[p].positives <= MaxCount
         /\ serial' = IF count_prematcher_false_positives THEN counted ELSE serial
         /\ threads' =
              [threads EXCEPT ![t] =
                 IF count_prematcher_false_positives
                 THEN NextResult(t, re_results, result)
                 ELSE NextResult(t, <<>>, result)]
  /\ UNCHANGED prematcher_false_positives
  /\ ThreadFrame

\* The read of self.prematcher_false_positives[pattern]["positives"].
ThreadLoadPositives(t) ==
  /\ threads[t].pc = "load_positives"
  /\ threads' =
       [threads EXCEPT
          ![t].pc = "store_positives",
          ![t].loaded = prematcher_false_positives[Head(threads[t].re_results)[2]].positives]
  /\ UNCHANGED <<prematcher_false_positives, serial>>
  /\ ThreadFrame

\* The write of the value read plus one; then `if match is None`.
ThreadStorePositives(t) ==
  /\ threads[t].pc = "store_positives"
  /\ LET pattern == Head(threads[t].re_results)[2]
         match == Head(threads[t].re_results)[3]
     IN  /\ prematcher_false_positives' =
              [prematcher_false_positives EXCEPT ![pattern].positives = threads[t].loaded + 1]
         /\ threads' =
              [threads EXCEPT ![t] =
                 IF match = NoMatch
                 THEN [threads[t] EXCEPT !.pc = "load_false_positives", !.loaded = 0]
                 ELSE NextResult(t, Tail(threads[t].re_results), threads[t].result)]
  /\ UNCHANGED serial
  /\ ThreadFrame

\* The read of self.prematcher_false_positives[pattern]["false_positives"].
ThreadLoadFalsePositives(t) ==
  /\ threads[t].pc = "load_false_positives"
  /\ threads' =
       [threads EXCEPT
          ![t].pc = "store_false_positives",
          ![t].loaded =
             prematcher_false_positives[Head(threads[t].re_results)[2]].false_positives]
  /\ UNCHANGED <<prematcher_false_positives, serial>>
  /\ ThreadFrame

\* The write of the value read plus one; then the next result.
ThreadStoreFalsePositives(t) ==
  /\ threads[t].pc = "store_false_positives"
  /\ LET pattern == Head(threads[t].re_results)[2]
     IN  prematcher_false_positives' =
           [prematcher_false_positives EXCEPT
              ![pattern].false_positives = threads[t].loaded + 1]
  /\ threads' =
       [threads EXCEPT ![t] = NextResult(t, Tail(threads[t].re_results), threads[t].result)]
  /\ UNCHANGED serial
  /\ ThreadFrame

\* run returns the matches to the thread's caller.
ThreadReturn(t) ==
  /\ threads[t].pc = "return"
  /\ threads' = [threads EXCEPT ![t] = IdleThread]
  /\ UNCHANGED <<prematcher_false_positives, serial>>
  /\ ThreadFrame

\* ------------------------------------------------------------ properties
\* The prematchers registered for the i-th element of the patterns argument:
\* the generated ones for None, the given ones otherwise.
RegisteredPrematchers(i) ==
  IF arg.items[i].pm.t = "None"
  THEN generate_prematchers(arg.items[i].pattern).value
  ELSE arg.items[i].pm.toks

Registrations == 1..Len(arg.items)

\* Every pattern's prematchers were generated or bypassed with an empty
\* collection.
AllGeneratedOrBypassed ==
  \A i \in Registrations :
    arg.items[i].pm.t = "None" \/ (arg.items[i].pm.t = "iterable" /\ arg.items[i].pm.toks = {})

Returned(op) == phase = "built" /\ call.op = op

\* C1: on a matcher whose prematchers were all generated or bypassed,
\* search with prematching returns the same (pattern, match) list as search
\* without prematching, for every text.
C1_Soundness ==
  (Returned("run") /\ call.kind = "search" /\ call.enable_prematchers /\ AllGeneratedOrBypassed)
    => ret.pairs = RunResult("search", call.s, FALSE)

\* The registrations that are candidates of the text t as scanned: those
\* without prematchers and those with a prematcher that is a substring of t.
CandidatesOf(t) ==
  {<<i, arg.items[i].pattern>> :
     i \in {j \in Registrations :
              \/ RegisteredPrematchers(j) = {}
              \/ \E w \in RegisteredPrematchers(j) : IsSubstring(w, t)}}

ReturnsExactly(t) ==
  /\ Range(ret.candidates) = CandidatesOf(t)
  /\ Len(ret.candidates) = Cardinality(CandidatesOf(t))

\* C2: get_pattern_candidates(T) returns exactly the registered patterns
\* without prematchers or with a prematcher that is a substring of the
\* normalized T (T lowercased, its non-ASCII characters dropped).
C2_Candidates ==
  Returned("get_pattern_candidates") => ReturnsExactly(to_lowercase_ascii(call.s))

\* The same of the text as get_pattern_candidates normalizes it, s.lower():
\* C2 fails by the normalization alone.
CandidatesOfScannedText ==
  Returned("get_pattern_candidates") => ReturnsExactly(StrLower(call.s))

\* C3: the (pattern, match) pairs run returns are in strictly increasing
\* registration order, each pattern the one registered at its index.
C3_Ordering ==
  Returned("run") =>
    /\ \A i \in 1..Len(ret.pairs) : \A j \in 1..Len(ret.pairs) :
         i < j => ret.pairs[i][1] < ret.pairs[j][1]
    /\ \A i \in 1..Len(ret.pairs) :
         /\ ret.pairs[i][1] \in Registrations
         /\ ret.pairs[i][2] = arg.items[ret.pairs[i][1]].pattern

\* A run returned two matches, of a pattern that bypasses prematching
\* registered after a pattern with prematchers.
C3_Witness ==
  /\ Returned("run")
  /\ call.enable_prematchers
  /\ Len(ret.pairs) = 2
  /\ RegisteredPrematchers(1) # {}
  /\ RegisteredPrematchers(2) = {}

\* The registrations a run on s attempts.
Attempted(s, enable_prematchers) ==
  IF enable_prematchers
  THEN {i \in Registrations :
          \/ RegisteredPrematchers(i) = {}
          \/ \E w \in RegisteredPrematchers(i) : IsSubstring(w, StrLower(s))}
  ELSE Registrations

\* A run with profiling adds to the counters of each pattern its attempts of
\* this call and, to the misses, those that found no match.
C4_Step ==
  (call.op = "" /\ call'.op = "run" /\ count_prematcher_false_positives) =>
    LET tried == Attempted(call'.s, call'.enable_prematchers)
        of(p) == {i \in tried : arg.items[i].pattern = p}
        missed(p) == {i \in of(p) : MatchFunc(call'.kind, p, call'.s) = NoMatch}
    IN  /\ DOMAIN prematcher_false_positives' = DOMAIN prematcher_false_positives
        /\ \A p \in DOMAIN prematcher_false_positives :
             /\ prematcher_false_positives'[p].positives =
                  prematcher_false_positives[p].positives + Cardinality(of(p))
             /\ prematcher_false_positives'[p].false_positives =
                  prematcher_false_positives[p].false_positives + Cardinality(missed(p))

ScenarioDone ==
  /\ phase = "built"
  /\ arg.items = <<Bare("(a|a)a"), Bare("aa")>>
  /\ scenario = Len(ScenarioCalls)

\* After match("a"), match("aa"), match("baa") on the patterns "(a|a)a" and
\* "aa": 3 attempts and 2 misses, 2 attempts and 1 miss.
C4_Scenario ==
  ScenarioDone =>
    /\ prematcher_false_positives["(a|a)a"] = [positives |-> 3, false_positives |-> 2]
    /\ prematcher_false_positives["aa"] = [positives |-> 2, false_positives |-> 1]

\* C4: with profiling every run call counts one attempt for each pattern it
\* attempts, one miss for each attempt without a match, and leaves the other
\* counters; the three calls of the test end with 3/2 and 2/1.
C4_FalsePositiveAccounting == [][C4_Step]_vars /\ []C4_Scenario

C4_Witness == ScenarioDone /\ call.op = "run"

\* What the claim calls a valid token: non-empty, lowercase, ASCII.
NonEmptyLowercaseAscii(token) ==
  /\ token # <<>>
  /\ \A i \in 1..Len(token) : IsAscii(token[i]) /\ ~ IsUpper(token[i])

\* C5: every prematcher of a built matcher passed the validator, which
\* fails for the empty token and for a token with a non-ASCII character or
\* an uppercase letter.
C5_Validator ==
  phase = "built" =>
    \A i \in Registrations : \A token \in RegisteredPrematchers(i) : NonEmptyLowercaseAscii(token)

\* C6: construction fails when the patterns argument is a str and when a
\* pattern's prematchers are given as a str.
C6_StringRefused ==
  (arg.str \/ \E i \in Registrations : arg.items[i].pm.t = "str") => phase # "built"

\* No matcher is observable.
NoMatcher ==
  /\ patterns = <<>>
  /\ DOMAIN prematchers = {}
  /\ patterns_without_prematchers = {}
  /\ DOMAIN automaton = {}
  /\ DOMAIN prematcher_false_positives = {}
  /\ call = NoCall
  /\ ret = NoRet

\* The generation of the i-th element's prematchers succeeded, if asked for,
\* and each of its prematchers passes validate_prematcher.
RegistrationPasses(i) ==
  /\ arg.items[i].pm.t # "str"
  /\ arg.items[i].pm.t = "None" => generate_prematchers(arg.items[i].pattern).ok
  /\ \A token \in RegisteredPrematchers(i) : validate_prematcher(token)

\* C7: when __init__ raises, no matcher, automaton or counter table is
\* observable; a matcher exists only if the generation of every pattern
\* succeeded and every prematcher of every pattern passed validation.
C7_AtomicConstruction ==
  /\ phase = "failed" => raised # "" /\ NoMatcher
  /\ phase = "built" => raised = "" /\ \A i \in Registrations : RegistrationPasses(i)

\* __init__ raised for an invalid prematcher of the second pattern, the
\* first pattern's prematchers being valid.
C7_Witness ==
  /\ phase = "failed"
  /\ raised = "ValueError"
  /\ Len(arg.items) = 2
  /\ RegistrationPasses(1)
  /\ ~ RegistrationPasses(2)

ReportOps == {"get_prematcher_false_positives", "format_prematcher_false_positives"}

C8_Step ==
  (call.op = "" /\ call'.op \in ReportOps) =>
    /\ phase' = phase
    /\ matcher' = matcher
    /\ ~ count_prematcher_false_positives => ret'.raised = "RuntimeError"
    /\ count_prematcher_false_positives => ret'.raised = ""

\* C8: the report raises on a matcher without profiling and changes no
\* state; on a matcher with profiling it does not raise.
C8_ProfilingDisabledError == [][C8_Step]_vars

\* A report was asked of a matcher without profiling and raised.
C8_Witness ==
  /\ Returned("format_prematcher_false_positives")
  /\ ~ count_prematcher_false_positives
  /\ ret.raised = "RuntimeError"

Min(a, b) == IF a <= b THEN a ELSE b

\* C9: the report's entries are in non-increasing order of their
\* false-positive count, one entry for each pattern with false positives,
\* with that pattern's counters; with worst_n = n it holds the first n
\* entries of that order, and all of them when worst_n is None or exceeds
\* their number.
C9_Report ==
  (phase = "built" /\ call.op \in ReportOps /\ ret.raised = "") =>
    LET all == get_prematcher_false_positives
        n == IF call.op = "format_prematcher_false_positives" /\ ~ call.worst_none
             THEN Min(call.worst_n, Len(all))
             ELSE Len(all)
    IN  /\ \A i \in 1..Len(all) : \A j \in 1..Len(all) :
             i < j => all[i].false_positives >= all[j].false_positives
        /\ {all[i].pattern : i \in 1..Len(all)} =
             {p \in DOMAIN prematcher_false_positives :
                prematcher_false_positives[p].false_positives > 0}
        /\ Len(all) = Cardinality({all[i].pattern : i \in 1..Len(all)})
        /\ \A i \in 1..Len(all) :
             /\ all[i].false_positives = prematcher_false_positives[all[i].pattern].false_positives
             /\ all[i].positives = prematcher_false_positives[all[i].pattern].positives
        /\ Len(ret.report) = n
        /\ \A i \in 1..n : ret.report[i] = all[i]

\* format_prematcher_false_positives(1) returned the first of two entries
\* with different counts, the pattern registered second.
C9_Witness ==
  /\ Returned("format_prematcher_false_positives")
  /\ ret.raised = ""
  /\ ~ call.worst_none
  /\ call.worst_n = 1
  /\ Len(get_prematcher_false_positives) = 2
  /\ Len(ret.report) = 1
  /\ ret.report[1].pattern = patterns[2]
  /\ ret.report[1].false_positives > get_prematcher_false_positives[2].false_positives

\* C10: the text is lowercased and its non-ASCII characters are dropped
\* before the scan: every pattern with a prematcher that is a substring of
\* the surviving characters is a candidate, "ab" for "aäb".
C10_Normalization ==
  Returned("get_pattern_candidates") =>
    \A w \in DOMAIN automaton :
      IsSubstring(w, to_lowercase_ascii(call.s)) => automaton[w] \subseteq Range(ret.candidates)

\* ------------------------------------------------------------ generation
\* The top level of an AST once a sole group without flags is peeled.
Peeled(ast) ==
  IF /\ Len(ast) = 1
     /\ ast[1].op = "SUBPATTERN"
     /\ ast[1].add_flags = {} /\ ast[1].del_flags = {}
  THEN ast[1].subs[1]
  ELSE ast

IsLiteralAt(top, i) == i \in 1..Len(top) /\ top[i].op = "LITERAL"

\* The maximal runs of consecutive literals of top, as <<first, last>>.
MaximalRuns(top) ==
  {r \in (1..Len(top)) \X (1..Len(top)) :
     /\ r[1] <= r[2]
     /\ \A i \in r[1]..r[2] : IsLiteralAt(top, i)
     /\ ~ IsLiteralAt(top, r[1] - 1)
     /\ ~ IsLiteralAt(top, r[2] + 1)}

\* The lowercased text of the longest maximal run, the leftmost of the
\* longest ones; the empty str when top holds no literal.
LongestTerminal(top) ==
  LET runs == MaximalRuns(top)
      size(r) == r[2] - r[1] + 1
      best == CHOOSE r \in runs :
                \A q \in runs : size(r) > size(q) \/ (size(r) = size(q) /\ r[1] <= q[1])
  IN  IF runs = {}
      THEN <<>>
      ELSE [k \in 1..size(best) |-> Lower(top[best[1] + k - 1].ch)]

Generated == phase = "new" /\ call.op = "generate_prematchers"

BranchTerminals(node) ==
  {LongestTerminal(Peeled(node.subs[k])) : k \in 1..Len(node.subs)}

IsBranchAt(top, i) == i \in 1..Len(top) /\ top[i].op = "BRANCH"

NoLiteral(top) == \A i \in 1..Len(top) : ~ IsLiteralAt(top, i)

GenerationFailed == ret.raised = "ValueError" /\ ret.prematchers = {}

\* C12: for an AST that is one alternation, a sole group without flags
\* peeled, generate_prematchers returns the longest terminals of all the
\* branches if and only if each branch has a non-empty one; otherwise it
\* raises and returns no set.
C12_BranchCase ==
  Generated =>
    LET top == Peeled(call.sre_ast)
    IN  (Len(top) = 1 /\ IsBranchAt(top, 1)) =>
          IF \A terminal \in BranchTerminals(top[1]) : terminal # <<>>
          THEN ret.raised = "" /\ ret.prematchers = BranchTerminals(top[1])
          ELSE GenerationFailed

\* Generation failed for one alternation with a branch that has a terminal
\* and a branch that is itself an alternation.
C12_Witness ==
  /\ Generated
  /\ GenerationFailed
  /\ LET top == Peeled(call.sre_ast)
     IN  /\ Len(top) = 1
         /\ IsBranchAt(top, 1)
         /\ \E terminal \in BranchTerminals(top[1]) : terminal # <<>>
         /\ \E k \in 1..Len(top[1].subs) :
              LET branch == Peeled(top[1].subs[k])
              IN  Len(branch) = 1 /\ IsBranchAt(branch, 1)

\* The top level holds an alternation beside other nodes, and no literal.
AlternationAmongOthers(top) ==
  /\ Len(top) > 1
  /\ NoLiteral(top)
  /\ \E i \in 1..Len(top) : IsBranchAt(top, i)

\* C14 as stated: for a top level that holds an alternation together with
\* other non-literal nodes and no literal, generation fails.
C14_OnlySoleAlternation ==
  Generated =>
    (AlternationAmongOthers(Peeled(call.sre_ast)) => GenerationFailed)

\* The alternations of the top level whose branches all have a terminal.
UsableBranches(top) ==
  {i \in 1..Len(top) :
     IsBranchAt(top, i) /\ \A terminal \in BranchTerminals(top[i]) : terminal # <<>>}

\* C14 as amended: the branch case is tried on every alternation of the top
\* level, in order, whatever stands beside it; for a top level with an
\* alternation among other non-literal nodes and no literal, generation
\* returns the terminals of the first alternation whose branches all have
\* one, and fails only when there is none.
C14_EveryTopLevelAlternation ==
  Generated =>
    LET top == Peeled(call.sre_ast)
        usable == UsableBranches(top)
    IN  AlternationAmongOthers(top) =>
          IF usable = {}
          THEN GenerationFailed
          ELSE /\ ret.raised = ""
               /\ ret.prematchers =
                    BranchTerminals(top[CHOOSE i \in usable : \A j \in usable : i <= j])

\* Generation returned the terminals of an alternation that stands after
\* another node and after an alternation with a branch without terminal.
C14_Witness ==
  /\ Generated
  /\ ret.raised = ""
  /\ LET top == Peeled(call.sre_ast)
     IN  /\ AlternationAmongOthers(top)
         /\ \E i \in 1..Len(top) : \E j \in UsableBranches(top) :
              /\ i < j
              /\ IsBranchAt(top, i)
              /\ i \notin UsableBranches(top)
              /\ ret.prematchers = BranchTerminals(top[j])

\* ----------------------------------------------------------- determinism
\* The prematchers of one element of the patterns argument.
PrematchersFor(item) ==
  IF item.pm.t = "None" THEN generate_prematchers(item.pattern).value ELSE item.pm.toks

\* The candidates of the text s for the patterns argument items, by the
\* argument and the text alone.
DeterminedCandidates(items, s) ==
  {<<i, items[i].pattern>> :
     i \in {j \in 1..Len(items) :
              \/ PrematchersFor(items[j]) = {}
              \/ \E w \in PrematchersFor(items[j]) : IsSubstring(w, StrLower(s))}}

C13_State ==
  Returned("get_pattern_candidates") =>
    /\ Range(ret.candidates) = DeterminedCandidates(arg.items, call.s)
    /\ \A i \in 1..Len(ret.candidates) : \A j \in 1..Len(ret.candidates) :
         i < j => ret.candidates[i][1] < ret.candidates[j][1]

C13_Fixed == phase = "built" => arg' = arg

\* C13: what get_pattern_candidates returns for a text is a function of the
\* text and of the patterns argument of the construction, which no call
\* changes: the same text gives the same candidates whatever was called
\* before, with and without profiling.
C13_Determinism == []C13_State /\ [][C13_Fixed]_vars

\* get_pattern_candidates returned candidates on a matcher with profiling
\* whose counters earlier runs have changed.
C13_Witness ==
  /\ Returned("get_pattern_candidates")
  /\ count_prematcher_false_positives
  /\ ret.candidates # <<>>
  /\ Len(ret.candidates) < Len(patterns)
  /\ \E p \in DOMAIN prematcher_false_positives :
       prematcher_false_positives[p].false_positives > 0

\* ----------------------------------------------------------------- frame
ReadOps == {"get_pattern_candidates"} \cup ReportOps

C15_Step ==
  phase = "built" =>
    /\ patterns' = patterns
    /\ prematchers' = prematchers
    /\ patterns_without_prematchers' = patterns_without_prematchers
    /\ automaton' = automaton
    /\ ~ count_prematcher_false_positives => matcher' = matcher
    /\ call'.op \in ReadOps => prematcher_false_positives' = prematcher_false_positives

\* C15: on a built matcher no call changes the pattern list, the
\* prematcher sets, the set of patterns without prematchers or the
\* automaton; without profiling no call changes any attribute, and
\* get_pattern_candidates and the reports never change the counters.
C15_Frame == [][C15_Step]_vars

\* A report returned on a matcher whose counters the runs before it have
\* set, and they are still set.
C15_Witness ==
  /\ Returned("get_prematcher_false_positives")
  /\ count_prematcher_false_positives
  /\ ret.raised = ""
  /\ \E p \in DOMAIN prematcher_false_positives :
       /\ prematcher_false_positives[p].positives > 1
       /\ prematcher_false_positives[p].false_positives = 0

\* -------------------------------------------------------- counter bounds
ReportReturned == phase = "built" /\ call.op \in ReportOps /\ ret.raised = ""

\* C17: with profiling every pattern's counters satisfy
\* 0 <= false_positives <= positives; every entry of a report has
\* false_positives > 0 and positives > 0, so its rate is defined and lies in
\* (0, 1] (1..100 hundredths as formatted), and no pattern with zero false
\* positives is listed.
C17_CounterBounds ==
  /\ (phase = "built" /\ count_prematcher_false_positives) =>
        \A p \in DOMAIN prematcher_false_positives :
          /\ 0 <= prematcher_false_positives[p].false_positives
          /\ prematcher_false_positives[p].false_positives
               <= prematcher_false_positives[p].positives
  /\ ReportReturned =>
        /\ \A i \in 1..Len(ret.report) :
             /\ ret.report[i].positives > 0
             /\ ret.report[i].false_positives > 0
             /\ ret.report[i].false_positives <= ret.report[i].positives
             /\ prematcher_false_positives[ret.report[i].pattern].false_positives > 0
        /\ (call.op = "format_prematcher_false_positives" /\ ret.report # <<>>) =>
             \A i \in 1..Len(ret.lines) : ret.lines[i].rate \in 1..100

\* A formatted report lists a pattern with the rate 0.50 and leaves out a
\* pattern that was attempted and never missed.
C17_Witness ==
  /\ Returned("format_prematcher_false_positives")
  /\ ret.raised = ""
  /\ Len(ret.report) = 1
  /\ ret.lines[1].rate = 50
  /\ \E p \in DOMAIN prematcher_false_positives :
       /\ prematcher_false_positives[p].positives > 0
       /\ prematcher_false_positives[p].false_positives = 0

\* ----------------------------------------------------------- concurrency
NoThreadInRun == \A t \in Threads : threads[t].pc = "idle"

\* C16: once the concurrent run calls have returned, every pattern's
\* counters equal the totals the same calls give one after another.
C16_NoLostIncrement ==
  (phase = "built" /\ count_prematcher_false_positives /\ NoThreadInRun) =>
    prematcher_false_positives = serial

\* __init__ is the first call; the queries are made on the built matcher.
New == phase = "new" /\ \E a \in PatternsArgs : Construct(a, FALSE)

NewProfiled == phase = "new" /\ \E a \in ProfiledArgs : Construct(a, TRUE)

Search == Idle /\ \E s \in Texts, enable_prematchers \in BOOLEAN : Run("search", s, enable_prematchers)

Match == Idle /\ \E s \in Texts, enable_prematchers \in BOOLEAN : Run("match", s, enable_prematchers)

Fullmatch ==
  Idle /\ \E s \in Texts, enable_prematchers \in BOOLEAN : Run("fullmatch", s, enable_prematchers)

Candidates == Idle /\ \E s \in Texts : GetPatternCandidates(s)

Format ==
  \/ FormatPrematcherFalsePositives(TRUE, 0)
  \/ \E worst_n \in 0..MaxWorstN : FormatPrematcherFalsePositives(FALSE, worst_n)

Next ==
  \/ New
  \/ NewProfiled
  \/ Search
  \/ Match
  \/ Fullmatch
  \/ Candidates
  \/ GetPrematcherFalsePositives
  \/ Format
  \/ Discard

Spec == Init /\ [][Next]_vars

\* generate_prematchers on its own, on the ASTs of ParsedPatterns.
Generate == \E parsed \in ParsedPatterns : GeneratePrematchers(parsed)

GenNext == Generate

GenSpec == Init /\ [][GenNext]_vars

\* Threads that call search, match and fullmatch on one matcher built with
\* count_prematcher_false_positives.
ThreadCall ==
  \E t \in Threads, kind \in Kinds, s \in ThreadTexts, enable_prematchers \in BOOLEAN :
    ThreadRun(t, kind, s, enable_prematchers)

ThreadStep ==
  \E t \in Threads :
    \/ ThreadLoadPositives(t)
    \/ ThreadStorePositives(t)
    \/ ThreadLoadFalsePositives(t)
    \/ ThreadStoreFalsePositives(t)
    \/ ThreadReturn(t)

ThreadedNext ==
  \/ NewProfiled
  \/ ThreadCall
  \/ ThreadStep

ThreadedSpec == Init /\ [][ThreadedNext]_vars

====
